---------------------------- MODULE Spec2Model ----------------------------
(***************************************************************************)
(* Verification Orchestration Engine of fact_check.                        *)
(*                                                                         *)
(*   court_manager.py : CourtManager (_init_directories, build_court,      *)
(*                      verify_text)                                       *)
(*   fake_news.py     : call_factcheck_service,                            *)
(*                      convert_court_result_to_user_format,               *)
(*                      submit_feedback, save_user_feedback                *)
(*                                                                         *)
(* The Court object (dispatch of the jurors, vote aggregation, the judge)  *)
(* is the model_court package, which is imported and configured by         *)
(* build_court; what happens inside court.hear follows sections 4.2-4.4    *)
(* of the specification text.                                              *)
(***************************************************************************)
EXTENDS Integers, Sequences, FiniteSets, TLC

VARIABLES
    \* ---- process and ledger file (data/user_feedback_db.txt) ----
    constructed,      \* court_manager = CourtManager() has run in this process
    panel,            \* the juries, quorum and concurrency_limit given to Court
    ledger_exists,    \* user_feedback_path.exists()
    ledger,           \* content of the ledger file: sequence of written pieces
    \* ---- feedback submissions (one per request thread) ----
    fpc,              \* thread -> position inside save_user_feedback
    fsub,             \* thread -> the submission being saved
    fnext,            \* thread -> index of the next f.write call
    fbuf,             \* thread -> pieces written to f but not yet flushed
    submitted,        \* the submissions accepted so far, in order (id = index)
    response,         \* id -> answer of submit_feedback to that submission
    rejected,         \* the requests answered with 400, with the message
    backups,          \* fact_feedback/: the backup files, name and record id
    \* ---- one /api/summary request (get_summary) ----
    spc,              \* position of the request
    page,             \* the request and the answers of its oracles
    future_summary,   \* result of the summary task, <<>> while it runs
    future_facts,     \* result of the extraction task, <<>> while it runs
    analysis,         \* value returned by analyze_content
    summary_response, \* body get_summary answers with
    \* ---- one verification round (call_factcheck_service) ----
    rpc,              \* position of the round
    feedback_content, \* ledger snapshot read by build_court
    consulted,        \* feedback text the jurors of the round were given
    jstate,           \* entry of juries -> state of its juror call
    votes,            \* the votes returned so far, in completion order
    jury_votes,       \* juror name -> decision or "failed"
    prelim,           \* label of the vote aggregation
    judge,            \* label suggested by the judge
    report,           \* value returned by court.hear
    court_error,      \* court_manager.verify_text raised (model_court_error)
    court_result,     \* value returned by verify_text
    result_text,      \* reply of the conversion call, or "error"
    user_friendly_result  \* value returned by call_factcheck_service

vars == <<constructed, panel, ledger_exists, ledger,
          fpc, fsub, fnext, fbuf, submitted, response, rejected, backups,
          spc, page, future_summary, future_facts, analysis, summary_response,
          rpc, feedback_content, consulted, jstate, votes, jury_votes,
          prelim, judge,
          report, court_error, court_result, result_text,
          user_friendly_result>>

procVars   == <<constructed, panel>>
ledgerVars == <<ledger_exists, ledger>>
feedVars   == <<fpc, fsub, fnext, fbuf, submitted, response, rejected, backups>>
pageVars   == <<spc, page, future_summary, future_facts, analysis,
                summary_response>>
dispVars   == <<jstate, votes>>
roundVars  == <<rpc, feedback_content, consulted, dispVars, jury_votes, prelim,
                judge,
                report, court_error, court_result, result_text,
                user_friendly_result>>

(***************************************************************************)
(* Bounds of the model.                                                    *)
(***************************************************************************)
MaxReplyLines == 2
MaxFeedback   == 2
MaxPanel      == 5


(***************************************************************************)
(* The panel assembled by build_court.                                     *)
(***************************************************************************)
\* the list with jury_rag in the place of jury_feedback
juries_twice == <<"Logic_GPT", "Logic_Gemini", "Web_Search_Jury",
                  "RAG_Jury", "RAG_Jury">>

juries == <<"Logic_GPT", "Logic_Gemini", "Web_Search_Jury",
            "RAG_Jury", "User_Feedback_Jury">>

JurorNames == {juries[i] : i \in 1..Len(juries)}

\* a quorum above the number of jurors
quorum_over == Len(juries) + 1

quorum == 3

concurrency_limit == 5

\* the parameters of the Court(...) call of build_court
ConfiguredPanel ==
    [size |-> Len(juries), quorum |-> quorum,
     concurrency_limit |-> concurrency_limit]

\* the parameters a Court may be constructed with
PanelConfigs ==
    [size : 0..MaxPanel, quorum : 0..(MaxPanel + 1),
     concurrency_limit : 0..MaxPanel]

\* the test without the upper bound of the quorum
PanelValid_lax(cfg) == cfg.quorum >= 1 /\ cfg.concurrency_limit >= 1

\* the validation of the panel parameters: the construction fails with
\* ConfigurationError when it does not hold
PanelValid(cfg) ==
    /\ 1 <= cfg.quorum
    /\ cfg.quorum <= cfg.size
    /\ cfg.concurrency_limit >= 1

\* the rule of "suspicious" with lte in the place of lt
verdict_rules_lte ==
    << [label |-> "supported",  operator |-> "eq", num |-> 0, den |-> 1],
       [label |-> "suspicious", operator |-> "lte", num |-> 1, den |-> 2],
       [label |-> "refuted",    operator |-> "default", num |-> 0, den |-> 1] >>

\* verdict_rules, in the order of the dict; a value is the fraction num/den
verdict_rules ==
    << [label |-> "supported",  operator |-> "eq", num |-> 0, den |-> 1],
       [label |-> "suspicious", operator |-> "lt", num |-> 1, den |-> 2],
       [label |-> "refuted",    operator |-> "default", num |-> 0, den |-> 1] >>

\* decisions a juror can vote
Decisions == {"no_objection", "reasonable_doubt", "suspicious_fact", "refutes"}

\* outcome of one juror call: a vote, or the failed / timed-out sentinel
Outcomes == Decisions \cup {"failed"}

\* labels of the court (keys of verdict_rules)
CourtLabels == {verdict_rules[i].label : i \in 1..Len(verdict_rules)}

\* labels handed to the caller
Labels == {"CLEAN", "SUSPICIOUS", "FAKE"}

\* the jurors named by the priority-weighting rule of the conversion prompt
HighTrust == {"User_Feedback_Jury", "RAG_Jury"}

(***************************************************************************)
(* Vote aggregation (inside Court; specification section 4.3).             *)
(***************************************************************************)
Returned(v) == {j \in JurorNames : v[j] # "failed"}

Objections(v) == {j \in Returned(v) : v[j] # "no_objection"}

\* a/b compared with c/d, with b, d > 0
Compare(op, a, b, c, d) ==
    CASE op = "eq"  -> a * d = c * b
      [] op = "lt"  -> a * d < c * b
      [] op = "lte" -> a * d <= c * b
      [] op = "gt"  -> a * d > c * b
      [] op = "gte" -> a * d >= c * b
      [] OTHER      -> FALSE

\* an integer threshold is compared with the number of objections, a
\* fractional one with the ratio objections / returned
RuleMatches(rule, objections, returned) ==
    IF rule.operator = "default" THEN TRUE
    ELSE IF rule.den = 1
         THEN Compare(rule.operator, objections, 1, rule.num, rule.den)
         ELSE Compare(rule.operator, objections, returned, rule.num, rule.den)

RECURSIVE FirstMatch(_, _, _, _)
FirstMatch(rules, i, objections, returned) ==
    IF i > Len(rules) THEN "suspicious"
    ELSE IF RuleMatches(rules[i], objections, returned) THEN rules[i].label
    ELSE FirstMatch(rules, i + 1, objections, returned)

Aggregate(v) ==
    LET returned   == Cardinality(Returned(v))
        objections == Cardinality(Objections(v))
    IN  IF returned < quorum THEN "suspicious"
        ELSE FirstMatch(verdict_rules, 1, objections, returned)

\* verdict of the claim in the report: the judge's label is the baseline,
\* the aggregation decides when fewer than quorum votes came back
CourtVerdict(v, j) ==
    IF Cardinality(Returned(v)) < quorum THEN Aggregate(v) ELSE j

(***************************************************************************)
(* verify_text: mapping of the report to the caller's dict.                *)
(***************************************************************************)
\* verdict_map with the entry of "suspicious" pointing at the wrong label
verdict_map_swapped(verdict) ==
    CASE verdict = "supported"  -> "CLEAN"
      [] verdict = "suspicious" -> "CLEAN"
      [] verdict = "refuted"    -> "FAKE"
      [] OTHER                  -> "SUSPICIOUS"

\* verdict_map.get(res.verdict, "N/A"): an unknown verdict is not labelled
verdict_map_na(verdict) ==
    CASE verdict = "supported"  -> "CLEAN"
      [] verdict = "suspicious" -> "SUSPICIOUS"
      [] verdict = "refuted"    -> "FAKE"
      [] OTHER                  -> "N/A"

\* verdict_map.get(res.verdict, res.verdict): no default label
verdict_map_raw(verdict) ==
    CASE verdict = "supported"  -> "CLEAN"
      [] verdict = "suspicious" -> "SUSPICIOUS"
      [] verdict = "refuted"    -> "FAKE"
      [] OTHER                  -> verdict

verdict_map(verdict) ==
    CASE verdict = "supported"  -> "CLEAN"
      [] verdict = "suspicious" -> "SUSPICIOUS"
      [] verdict = "refuted"    -> "FAKE"
      [] OTHER                  -> "SUSPICIOUS"

verify_text_result(rep) ==
    IF rep.claims = <<>>
    THEN [confidence |-> "N/A", details |-> "no_claims"]
    ELSE [confidence |-> verdict_map(rep.claims[1].verdict),
          details    |-> "court_report"]


(***************************************************************************)
(* convert_court_result_to_user_format: the reply of the conversion call   *)
(* is a text; a line of it is abstracted to what the parsing loop tests:   *)
(* whether it starts with 'VERDICT:' or 'MESSAGE:' (an indented line does  *)
(* not) and the text after 'VERDICT:'.                                     *)
(***************************************************************************)
VerdictLine(x, ind) == [kind |-> "VERDICT", value |-> x, indent |-> ind]
MessageLine == [kind |-> "MESSAGE", value |-> "", indent |-> FALSE]
TextLine    == [kind |-> "TEXT", value |-> "", indent |-> FALSE]

ReplyLines ==
    {VerdictLine(x, FALSE) : x \in Labels \cup {"UNCERTAIN"}}
        \cup {VerdictLine("CLEAN", TRUE), MessageLine, TextLine}

\* response['result'].strip(): leading whitespace of the text is removed
Strip(text) ==
    IF text = <<>> THEN text ELSE [text EXCEPT ![1].indent = FALSE]

StartsWith(line, prefix) == line.kind = prefix /\ ~line.indent

\* the for loop without its break at the MESSAGE line
RECURSIVE ParseVerdict_nobreak(_, _, _)
ParseVerdict_nobreak(lines, i, final_confidence) ==
    IF i > Len(lines) THEN final_confidence
    ELSE IF StartsWith(lines[i], "VERDICT")
         THEN ParseVerdict_nobreak(lines, i + 1,
                  IF lines[i].value \in {"CLEAN", "SUSPICIOUS", "FAKE"}
                  THEN lines[i].value ELSE final_confidence)
    ELSE ParseVerdict_nobreak(lines, i + 1, final_confidence)

\* the for loop over the lines: the last valid VERDICT before the first
\* MESSAGE line wins, the initial value is the court's confidence
RECURSIVE ParseVerdict(_, _, _)
ParseVerdict(lines, i, final_confidence) ==
    IF i > Len(lines) THEN final_confidence
    ELSE IF StartsWith(lines[i], "VERDICT")
         THEN ParseVerdict(lines, i + 1,
                  IF lines[i].value \in {"CLEAN", "SUSPICIOUS", "FAKE"}
                  THEN lines[i].value ELSE final_confidence)
    ELSE IF StartsWith(lines[i], "MESSAGE") THEN final_confidence
    ELSE ParseVerdict(lines, i + 1, final_confidence)

\* whether the loop reaches a MESSAGE line
MessageParsed(lines) == \E i \in 1..Len(lines) : StartsWith(lines[i], "MESSAGE")

ParseDetails(lines, confidence, final_confidence) ==
    IF final_confidence = confidence
          /\ ~ \E i \in 1..Len(lines) : lines[i].kind = "VERDICT"
    THEN "result_text"
    ELSE IF MessageParsed(lines) THEN "message" ELSE "result_text"

convert_court_result_to_user_format(cr, reply) ==
    IF ~reply.ok THEN cr
    ELSE LET lines == Strip(reply.lines)
             final == ParseVerdict(lines, 1, cr.confidence)
         IN  [confidence |-> final,
              details    |-> ParseDetails(lines, cr.confidence, final)]

\* a fallback that reports the failure instead
FallbackResult_failure == [confidence |-> "N/A", details |-> "fallback_mode"]

\* the dict returned when the court round raised
FallbackResult == [confidence |-> "CLEAN", details |-> "fallback_mode"]

\* the dict returned when no facts were extracted
NoFactsResult == [confidence |-> "N/A", details |-> "no_facts"]

\* the dict returned by the outer except of call_factcheck_service
ServiceErrorResult == [confidence |-> "N/A", details |-> "technical_error"]

(***************************************************************************)
(* Inputs of a round.                                                      *)
(***************************************************************************)
RECURSIVE SeqsUpTo(_, _)
SeqsUpTo(S, n) ==
    IF n = 0 THEN {<<>>}
    ELSE LET shorter == SeqsUpTo(S, n - 1)
         IN  shorter \cup {Append(q, x) : q \in {r \in shorter : Len(r) = n - 1},
                                           x \in S}

\* the outcomes drawn for a juror: the aggregation and verify_text only tell
\* no_objection, an objection and a failure apart, so the general jurors
\* draw one objection; the two jurors the conversion prompt names draw all
JurorOutcomes(j) ==
    IF j \in HighTrust THEN Outcomes
    ELSE {"no_objection", "reasonable_doubt", "failed"}

AllVotes == {v \in [JurorNames -> Outcomes] :
                \A j \in JurorNames : v[j] \in JurorOutcomes(j)}
JudgeLabels == CourtLabels \cup {"inconclusive"}
\* a reply of the conversion call, or its failure (ok = FALSE)
AllReplies ==
    {[ok |-> TRUE, lines |-> q] : q \in SeqsUpTo(ReplyLines, MaxReplyLines)}
        \cup {[ok |-> FALSE, lines |-> <<>>]}


(***************************************************************************)
(* The ledger file and save_user_feedback.                                 *)
(*                                                                         *)
(* The file content is the sequence of the pieces written to it; a piece   *)
(* is the text of one f.write call (or of the write_text call of           *)
(* _init_directories) and carries the id of its submission.  Sizes are in  *)
(* KiB, rounded down: the fixed lines count 0.                             *)
(***************************************************************************)
\* size of the buffer of a file opened with the default buffering
BufferSize == 8

FeedbackTypes == {"fact", "suspicious_fact", "fake_fact"}

(***************************************************************************)
(* submit_feedback: the request body and its validation.  A text field is  *)
(* abstracted to its length in characters.                                 *)
(***************************************************************************)
\* the least length of feedback_content and of feedback_prove
MinLength == 10

\* lengths drawn: empty, one below the least, the least, above the buffer
Lengths == {0, MinLength - 1, MinLength, (BufferSize + 1) * 1024}

\* feedback_type of a request: a valid one, none, or another word
RequestTypes == FeedbackTypes \cup {"", "opinion"}

Requests ==
    [feedback_type : RequestTypes, content_len : Lengths, prove_len : Lengths,
     has_background : BOOLEAN, content_marker : BOOLEAN]

\* the length tests one character too lenient
Validate_lenient(r) ==
    IF r.feedback_type = "" \/ r.feedback_type \notin FeedbackTypes
    THEN "Invalid feedback type"
    ELSE IF r.content_len = 0 \/ r.content_len < MinLength - 1
    THEN "Please provide the fact content"
    ELSE IF r.prove_len = 0 \/ r.prove_len < MinLength - 1
    THEN "Please provide evidence/proof"
    ELSE "ok"

\* the three tests of submit_feedback, in order: the message of the first
\* that fails (answered with status 400), or "ok"
Validate(r) ==
    IF r.feedback_type = "" \/ r.feedback_type \notin FeedbackTypes
    THEN "Invalid feedback type"
    ELSE IF r.content_len = 0 \/ r.content_len < MinLength
    THEN "Please provide the fact content"
    ELSE IF r.prove_len = 0 \/ r.prove_len < MinLength
    THEN "Please provide evidence/proof"
    ELSE "ok"

\* size in KiB, rounded down, of a text of len characters
KiB(len) == len \div 1024

FieldSizes == {KiB(len) : len \in Lengths}

\* the arguments save_user_feedback is called with, for the n-th submission
Submission(r, n) ==
    [id |-> n, feedback_type |-> r.feedback_type,
     content_len |-> r.content_len, prove_len |-> r.prove_len,
     content_size |-> KiB(r.content_len), prove_size |-> KiB(r.prove_len),
     has_background |-> r.has_background,
     content_marker |-> r.content_marker]

InitPiece == [id |-> 0, k |-> 1, text |-> "initialized", size |-> 0]

TypeText(feedback_type) ==
    CASE feedback_type = "fact"            -> "VERIFIED AS TRUE"
      [] feedback_type = "suspicious_fact" -> "MARKED AS SUSPICIOUS"
      [] feedback_type = "fake_fact"       -> "REPORTED AS FAKE"
      [] OTHER                             -> "UPPER"

\* the texts of the f.write calls of one record, in order
RecordTexts(p) ==
    << <<"separator", 0>>, <<"header", 0>>, <<"separator", 0>>, <<"url", 0>>,
       <<TypeText(p.feedback_type), 0>>,
       <<"claim", p.content_size>>, <<"evidence", p.prove_size>> >>
    \o (IF p.has_background THEN << <<"context", 0>> >> ELSE <<>>)

RecordWrites(p) ==
    [k \in 1..Len(RecordTexts(p)) |->
        [id |-> p.id, k |-> k, text |-> RecordTexts(p)[k][1],
         size |-> RecordTexts(p)[k][2]]]

RECURSIVE TotalSize(_)
TotalSize(pieces) ==
    IF pieces = <<>> THEN 0 ELSE Head(pieces).size + TotalSize(Tail(pieces))

\* the file opened with mode 'w': the content is lost
OpenLedger_truncate(content) == <<>>

\* open(user_feedback_db_path, 'a'): the content is kept
OpenLedger(content) == content

\* _init_directories without the exists() test
InitLedger_always(exists, content) == <<InitPiece>>

\* _init_directories: the file is written only when it does not exist
InitLedger(exists, content) == IF exists THEN content ELSE <<InitPiece>>

\* only the first line of the file is read
ReadText_head(content) == SubSeq(content, 1, 1)

\* user_feedback_path.read_text()
ReadText(content) == content

\* a reference that reads the ledger file whenever a juror consults it
SimpleTextStorage_live(text, file) == file

\* SimpleTextStorage(text=feedback_content): the reference holds the string
\* it was built with, a juror consulting it is given that string
SimpleTextStorage(text, file) == text

\* the juror whose reference is the feedback text
FeedbackJuror == "User_Feedback_Jury"

Threads == {"t1", "t2"}

NoSubmission ==
    [id |-> 0, feedback_type |-> "none", content_len |-> 0, prove_len |-> 0,
     content_size |-> 0, prove_size |-> 0, has_background |-> FALSE,
     content_marker |-> FALSE]

\* the submissions that pass the validation
Submissions(n) == {Submission(r, n) : r \in {q \in Requests : Validate(q) = "ok"}}

IsPrefix(a, b) == Len(a) <= Len(b) /\ SubSeq(b, 1, Len(a)) = a


(***************************************************************************)
(* Initial state: a fresh checkout, the server process not yet started.    *)
(***************************************************************************)
NoVotes  == [j \in JurorNames |-> "none"]
NoResult == [confidence |-> "none", details |-> "none"]
NoReply  == [ok |-> FALSE, lines |-> <<>>]
NoReport == [claims |-> <<>>]
NoCalls  == [i \in DOMAIN juries |-> "none"]

(***************************************************************************)
(* /api/summary: get_summary calls analyze_content, which runs             *)
(* generate_summary_gpt and extract_facts_claude in two worker threads.    *)
(* A returned tuple is a sequence; unpacking it into n names raises        *)
(* ValueError unless it holds n values.                                    *)
(***************************************************************************)
\* what the extraction oracle does: it answers with an 'error' key, with an
\* empty result, with text that holds no numbered fact, with facts, or the
\* call raises
Extractions == {"error", "empty", "no_facts", "facts", "raises"}

\* the dicts call_factcheck_service returns for a non-empty facts_list
FactCheckResults ==
    {[confidence |-> c, details |-> "message"] : c \in Labels}
        \cup {FallbackResult, ServiceErrorResult}

\* a request: page content of at least 50 characters or not, the LLM client
\* configured or not, and the answers of the oracles
Pages ==
    [content_ok : BOOLEAN, client : BOOLEAN, summary_ok : BOOLEAN,
     extraction : Extractions, fact_check : FactCheckResults]

NoPage ==
    [content_ok |-> FALSE, client |-> FALSE, summary_ok |-> FALSE,
     extraction |-> "none", fact_check |-> NoResult]

NoResponse ==
    [summary |-> "none", confidence |-> "none", fact_details |-> "none",
     error |-> FALSE]

\* value returned by generate_summary_gpt
SummaryText(pg) ==
    IF pg.summary_ok THEN "summary" ELSE "Summary generation failed."

ErrorResult == [confidence |-> "N/A", details |-> "Analysis incomplete."]

\* value returned by extract_facts_claude, at each of its return statements
ExtractReturn(pg) ==
    CASE pg.extraction = "error"    -> <<0, FALSE, "N/A">>
      [] pg.extraction = "empty"    -> <<0, FALSE, "N/A">>
      [] pg.extraction = "no_facts" -> <<0, NoFactsResult>>
      [] pg.extraction = "facts"    -> <<1, pg.fact_check>>
      [] OTHER                      -> <<0, ErrorResult>>

\* value returned by analyze_content when client is None
NotConfiguredReturn == <<"LLM not configured.", FALSE, "N/A">>

\* value returned by analyze_content once both tasks have ended: the pair,
\* or the value of the except branch when the result of the extraction
\* task does not unpack into facts_count, fact_check_result
AnalyzeReturn(summary, facts) ==
    IF Len(facts) = 2 THEN <<summary, facts[2]>>
    ELSE <<"Analysis failed, please try again later.", FALSE, "N/A">>

ShortContentResponse ==
    [summary |-> "Page content insufficient to generate summary.",
     confidence |-> "N/A", fact_details |-> "Insufficient content to analyze.",
     error |-> FALSE]

AnalysisFailedResponse ==
    [summary |-> "Analysis failed", confidence |-> "N/A",
     fact_details |-> "Analysis incomplete.", error |-> TRUE]

\* body get_summary answers with: the value of analyze_content is unpacked
\* into summary, fact_check_result, or the except branch answers
SummaryResponse(an) ==
    IF Len(an) = 2
    THEN [summary |-> an[1], confidence |-> an[2].confidence,
          fact_details |-> an[2].details, error |-> FALSE]
    ELSE AnalysisFailedResponse

PageInit ==
    /\ spc = "idle"
    /\ page = NoPage
    /\ future_summary = <<>>
    /\ future_facts = <<>>
    /\ analysis = <<>>
    /\ summary_response = NoResponse

RoundInit ==
    /\ rpc = "idle"
    /\ feedback_content = <<>>
    /\ consulted = <<>>
    /\ jstate = NoCalls
    /\ votes = <<>>
    /\ jury_votes = NoVotes
    /\ prelim = "none"
    /\ judge = "none"
    /\ report = NoReport
    /\ court_error = FALSE
    /\ court_result = NoResult
    /\ result_text = NoReply
    /\ user_friendly_result = NoResult

StartInit ==
    /\ constructed = FALSE
    /\ ledger_exists = FALSE
    /\ ledger = <<>>
    /\ fpc = [t \in Threads |-> "idle"]
    /\ fsub = [t \in Threads |-> NoSubmission]
    /\ fnext = [t \in Threads |-> 0]
    /\ fbuf = [t \in Threads |-> <<>>]
    /\ submitted = <<>>
    /\ response = <<>>
    /\ rejected = <<>>
    /\ backups = {}
    /\ PageInit
    /\ RoundInit

Init ==
    /\ panel = ConfiguredPanel
    /\ StartInit

(***************************************************************************)
(* Process start: court_manager = CourtManager() at import, which runs     *)
(* _init_directories before any request is served.                         *)
(***************************************************************************)
CourtManager_init ==
    /\ ~constructed
    /\ ledger' = InitLedger(ledger_exists, ledger)
    /\ ledger_exists' = TRUE
    /\ constructed' = TRUE
    /\ UNCHANGED <<panel, pageVars, feedVars, roundVars>>

\* the server is stopped and started again (no request in progress)
restart ==
    /\ constructed
    /\ \A t \in Threads : fpc[t] = "idle"
    /\ rpc = "idle"
    /\ constructed' = FALSE
    /\ UNCHANGED <<panel, pageVars, ledgerVars, feedVars, roundVars>>

(***************************************************************************)
(* One verification round: call_factcheck_service.                         *)
(***************************************************************************)
\* facts_list is empty: the N/A dict is returned before the court is called
no_facts ==
    /\ constructed
    /\ rpc = "idle"
    /\ user_friendly_result' = NoFactsResult
    /\ rpc' = "done"
    /\ UNCHANGED <<procVars, pageVars, ledgerVars, feedVars, dispVars,
                   feedback_content, consulted, jury_votes,
                   prelim, judge, report, court_error, court_result, result_text>>

\* verify_text, first line: the ledger is read once and the panel is built,
\* or the construction of the Court fails and verify_text raises
build_court ==
    /\ constructed
    /\ rpc = "idle"
    /\ ledger_exists
    /\ feedback_content' = ReadText(ledger)
    /\ rpc' = IF PanelValid(panel) THEN "built" ELSE "raised"
    /\ court_error' = ~PanelValid(panel)
    /\ UNCHANGED <<procVars, pageVars, ledgerVars, feedVars, dispVars,
                   consulted,
                   jury_votes, prelim, judge,
                   report, court_result, result_text,
                   user_friendly_result>>

\* report = await court.hear(safe_text): the jurors vote or fail, the votes
\* are aggregated, the judge suggests a label; or the hearing raises
court_hear(Votes, Judges) ==
    /\ rpc = "built"
    /\ \/ /\ court_error' = TRUE
          /\ rpc' = "raised"
          /\ UNCHANGED <<consulted, jury_votes, prelim, judge, report>>
       \/ /\ report' = [claims |-> <<>>]
          /\ rpc' = "heard"
          /\ UNCHANGED <<consulted, jury_votes, prelim, judge, court_error>>
       \/ \E v \in Votes, j \in Judges :
             /\ consulted' = SimpleTextStorage(feedback_content, ledger)
             /\ jury_votes' = v
             /\ judge' = j
             /\ prelim' = Aggregate(v)
             /\ report' = [claims |-> <<[verdict |-> CourtVerdict(v, j),
                                        jury_votes |-> v]>>]
             /\ rpc' = "heard"
             /\ UNCHANGED court_error
    /\ UNCHANGED <<procVars, pageVars, ledgerVars, feedVars, dispVars,
                   feedback_content,
                   court_result, result_text, user_friendly_result>>

\* the rest of verify_text: the report is mapped to the caller's dict
verify_text ==
    /\ rpc = "heard"
    /\ court_result' = verify_text_result(report)
    /\ rpc' = "judged"
    /\ UNCHANGED <<procVars, pageVars, ledgerVars, feedVars, dispVars,
                   feedback_content, consulted, jury_votes,
                   prelim, judge, report, court_error, result_text,
                   user_friendly_result>>

\* the conversion is also called before verify_text has returned
ConvertReady_early(pc) == pc \in {"built", "judged"}

\* call_factcheck_service calls the conversion in the statement that follows
\* court_result = asyncio.run(court_manager.verify_text(...))
ConvertReady(pc) == pc = "judged"

\* the conversion call answers (or fails) and its reply is parsed
convert(Replies) ==
    /\ ConvertReady(rpc)
    /\ \E r \in Replies :
          /\ result_text' = r
          /\ user_friendly_result' =
                 convert_court_result_to_user_format(court_result, r)
    /\ rpc' = "done"
    /\ UNCHANGED <<procVars, pageVars, ledgerVars, feedVars, dispVars,
                   feedback_content, consulted, jury_votes,
                   prelim, judge, report, court_error, court_result>>

\* except Exception as model_court_error: the fallback dict is returned
fallback ==
    /\ rpc = "raised"
    /\ user_friendly_result' = FallbackResult
    /\ rpc' = "done"
    /\ UNCHANGED <<procVars, pageVars, ledgerVars, feedVars, dispVars,
                   feedback_content, consulted, jury_votes,
                   prelim, judge, report, court_error, court_result, result_text>>

\* except Exception as e: writing the facts log (or any other statement
\* outside the inner try) raises
service_error ==
    /\ constructed
    /\ rpc = "idle"
    /\ user_friendly_result' = ServiceErrorResult
    /\ rpc' = "done"
    /\ UNCHANGED <<procVars, pageVars, ledgerVars, feedVars, dispVars,
                   feedback_content, consulted, jury_votes, prelim, judge,
                   report,
                   court_error, court_result, result_text>>

\* the request is answered; the next round starts from scratch
round_return ==
    /\ rpc = "done"
    /\ rpc' = "idle"
    /\ feedback_content' = <<>>
    /\ consulted' = <<>>
    /\ jury_votes' = NoVotes
    /\ prelim' = "none"
    /\ judge' = "none"
    /\ report' = NoReport
    /\ court_error' = FALSE
    /\ court_result' = NoResult
    /\ result_text' = NoReply
    /\ user_friendly_result' = NoResult
    /\ jstate' = NoCalls
    /\ votes' = <<>>
    /\ UNCHANGED <<procVars, pageVars, ledgerVars, feedVars>>

(***************************************************************************)
(* The rounds alone, with every combination of juror outcomes, judge       *)
(* labels and conversion replies.                                          *)
(***************************************************************************)
NextRound ==
    \/ CourtManager_init
    \/ no_facts
    \/ service_error
    \/ build_court
    \/ court_hear(AllVotes, JudgeLabels)
    \/ verify_text
    \/ convert(AllReplies)
    \/ fallback
    \/ round_return

SpecRound == Init /\ [][NextRound]_vars


(***************************************************************************)
(* Properties of a round.                                                  *)
(***************************************************************************)
\* the round has a report with its claim
Heard == rpc \in {"heard", "judged", "done"} /\ report.claims # <<>>

\* the round is over and went through the court and the conversion
Converted == rpc = "done" /\ report.claims # <<>> /\ ~court_error

BelowQuorum == Cardinality(Returned(jury_votes)) < quorum

HighTrustAgree == \A j \in HighTrust : jury_votes[j] = "no_objection"

Rank(label) ==
    CASE label = "CLEAN" -> 3 [] label = "SUSPICIOUS" -> 2
      [] label = "FAKE" -> 1 [] OTHER -> 0

\* C1: with fewer returned votes than the quorum, the aggregation yields the
\* conservative label, whatever the votes are, and verify_text hands it on as
\* SUSPICIOUS, never as CLEAN.
C1_BelowQuorumConservative ==
    (Heard /\ BelowQuorum) =>
        /\ prelim = "suspicious"
        /\ rpc \in {"judged", "done"} => court_result.confidence = "SUSPICIOUS"

C1_Witness ==
    /\ rpc = "judged"
    /\ Returned(jury_votes) = HighTrust
    /\ HighTrustAgree
    /\ court_result.confidence = "SUSPICIOUS"

C4_OverrideForcesClean ==
    (Converted /\ HighTrustAgree) => user_friendly_result.confidence = "CLEAN"

\* C5: the final label is never in a less favourable tier than the baseline
\* label (CLEAN > SUSPICIOUS > FAKE).
C5_OverrideOnlyRelaxes ==
    Converted =>
        Rank(user_friendly_result.confidence) >= Rank(court_result.confidence)

\* C6: the final label differs from the baseline label only when every
\* high-trust juror voted no_objection.
C6_BaselineUnlessOverride ==
    (Converted /\ user_friendly_result.confidence # court_result.confidence)
        => HighTrustAgree

Completed == rpc = "done" /\ ~court_error /\ court_result # NoResult

Undecided ==
    /\ rpc = "done"
    /\ \/ court_error
       \/ report.claims # <<>> /\ BelowQuorum

\* C20: a round that has no decisive verdict returns a report labelled
\* SUSPICIOUS.
C20_UndecidedIsConservative ==
    Undecided => user_friendly_result.confidence = "SUSPICIOUS"


(***************************************************************************)
(* save_user_feedback, as run by a request thread (app.run threaded=True). *)
(* No lock is taken: the steps of two threads interleave freely.  The      *)
(* text of the f.write calls collects in the buffer of f and reaches the   *)
(* file when the buffer overflows and when f is closed; each such flush    *)
(* is one append to the file.                                              *)
(***************************************************************************)
\* the requests drawn: every feedback type, claims and evidence below and
\* above the buffer size, with and without page background
SubmissionSamples(n) ==
    {p \in {q \in Submissions(n) : ~q.content_marker} :
        \/ p.feedback_type = "fact" /\ p.content_size = 0 /\ p.prove_size = 0
        \/ p.feedback_type = "suspicious_fact" /\ p.content_size > 0
              /\ p.prove_size = 0 /\ p.has_background
        \/ p.feedback_type = "fake_fact" /\ p.content_size > 0
              /\ p.prove_size > 0 /\ ~p.has_background}

\* the requests drawn that fail the validation: each test, at each of its
\* two ways to fail
InvalidSamples ==
    {r \in Requests :
        /\ ~r.has_background
        /\ ~r.content_marker
        /\ \/ r.feedback_type \notin FeedbackTypes
              /\ r.content_len = MinLength /\ r.prove_len = MinLength
           \/ r.feedback_type = "fact" /\ r.content_len < MinLength
              /\ r.prove_len = MinLength
           \/ r.feedback_type = "fact" /\ r.content_len = MinLength
              /\ r.prove_len < MinLength}

\* the answer without the except Exception of save_user_feedback raising again
SaveAnswer_swallowed(raised) == "success"

\* the answer of submit_feedback after save_user_feedback: success, or the
\* failure of the except branch when it raised
SaveAnswer(raised) == IF raised THEN "failure" ELSE "success"

\* open(backup_filename, 'w') and json.dump: the file of that name is
\* created, or its content is replaced
WriteBackup(dir, name, id) ==
    {b \in dir : b.name # name} \cup {[name |-> name, id |-> id]}

\* the values of datetime.now() that give the n-th submission a file name
\* of its own
FreshStamps(n) == {n}

\* the values datetime.now() may return to the n-th submission: a value of
\* its own, or the value a submission still in progress in another thread
\* was given
ClockStamps(n) ==
    FreshStamps(n) \cup
        {b.name : b \in {c \in backups : \E u \in Threads : fsub[u].id = c.id}}

\* submit_feedback has validated the request and calls save_user_feedback,
\* which names the backup file after the time and writes it first
accept_feedback(t, Samples, Stamps) ==
    /\ constructed
    /\ fpc[t] = "idle"
    /\ Len(submitted) + Len(rejected) < MaxFeedback
    /\ \E p \in Samples, timestamp \in Stamps :
          /\ submitted' = Append(submitted, p)
          /\ fsub' = [fsub EXCEPT ![t] = p]
          /\ backups' = WriteBackup(backups, timestamp, p.id)
    /\ response' = Append(response, "pending")
    /\ fpc' = [fpc EXCEPT ![t] = "saving"]
    /\ UNCHANGED <<procVars, pageVars, ledgerVars, fnext, fbuf, rejected,
                   roundVars>>

submit_feedback(t) ==
    accept_feedback(t, SubmissionSamples(Len(submitted) + 1),
                    FreshStamps(Len(submitted) + 1))

\* submit_feedback answers a request that fails the validation with 400
reject_feedback(t) ==
    /\ constructed
    /\ fpc[t] = "idle"
    /\ Len(submitted) + Len(rejected) < MaxFeedback
    /\ \E r \in InvalidSamples :
          /\ Validate(r) # "ok"
          /\ rejected' = Append(rejected, [request |-> r, message |-> Validate(r)])
    /\ UNCHANGED <<procVars, pageVars, ledgerVars, fpc, fsub, fnext, fbuf, submitted,
                   response, backups, roundVars>>

\* the request is valid, writing the backup file raises: nothing is written
backup_fails(t) ==
    /\ constructed
    /\ fpc[t] = "idle"
    /\ Len(submitted) + Len(rejected) < MaxFeedback
    /\ \E p \in SubmissionSamples(Len(submitted) + 1) :
          submitted' = Append(submitted, p)
    /\ response' = Append(response, SaveAnswer(TRUE))
    /\ UNCHANGED <<procVars, pageVars, ledgerVars, fpc, fsub, fnext, fbuf, rejected,
                   backups, roundVars>>

\* with open(user_feedback_db_path, 'a') as f
f_open(t) ==
    /\ fpc[t] = "saving"
    /\ ledger' = OpenLedger(ledger)
    /\ ledger_exists' = TRUE
    /\ fpc' = [fpc EXCEPT ![t] = "writing"]
    /\ fnext' = [fnext EXCEPT ![t] = 1]
    /\ fbuf' = [fbuf EXCEPT ![t] = <<>>]
    /\ UNCHANGED <<procVars, pageVars, fsub, submitted, response, rejected, backups,
                   roundVars>>

\* the indices n >= from at which the buffer overflows
Overflows(buf, w, from) ==
    {n \in from..Len(w) : TotalSize(buf \o SubSeq(w, from, n)) > BufferSize}

Min(S) == CHOOSE x \in S : \A y \in S : x <= y

\* the f.write calls up to the next one that makes the buffer overflow (the
\* calls before it change the buffer of the thread only), or up to the last
f_write(t) ==
    /\ fpc[t] = "writing"
    /\ fnext[t] <= Len(RecordWrites(fsub[t]))
    /\ LET w    == RecordWrites(fsub[t])
           over == Overflows(fbuf[t], w, fnext[t])
       IN  IF over # {}
           THEN /\ ledger' = ledger \o fbuf[t] \o SubSeq(w, fnext[t], Min(over))
                /\ fbuf' = [fbuf EXCEPT ![t] = <<>>]
                /\ fnext' = [fnext EXCEPT ![t] = Min(over) + 1]
           ELSE /\ ledger' = ledger
                /\ fbuf' = [fbuf EXCEPT ![t] = @ \o SubSeq(w, fnext[t], Len(w))]
                /\ fnext' = [fnext EXCEPT ![t] = Len(w) + 1]
    /\ UNCHANGED <<procVars, pageVars, ledger_exists, fpc, fsub, submitted, response,
                   rejected, backups, roundVars>>

\* the with block is left: f is flushed and closed, save_user_feedback
\* returns and submit_feedback answers
f_close(t) ==
    /\ fpc[t] = "writing"
    /\ fnext[t] > Len(RecordWrites(fsub[t]))
    /\ ledger' = ledger \o fbuf[t]
    /\ response' = [response EXCEPT ![fsub[t].id] = SaveAnswer(FALSE)]
    /\ fpc' = [fpc EXCEPT ![t] = "idle"]
    /\ fsub' = [fsub EXCEPT ![t] = NoSubmission]
    /\ fnext' = [fnext EXCEPT ![t] = 0]
    /\ fbuf' = [fbuf EXCEPT ![t] = <<>>]
    /\ UNCHANGED <<procVars, pageVars, ledger_exists, submitted, rejected, backups,
                   roundVars>>

\* open, a flush or the close raises OSError: of the text still in the
\* buffer of f some pieces may reach the file, the with block is left,
\* save_user_feedback raises again and submit_feedback answers with 500
save_fails(t) ==
    /\ fpc[t] \in {"saving", "writing"}
    /\ \E n \in 0..Len(fbuf[t]) : ledger' = ledger \o SubSeq(fbuf[t], 1, n)
    /\ response' = [response EXCEPT ![fsub[t].id] = SaveAnswer(TRUE)]
    /\ fpc' = [fpc EXCEPT ![t] = "idle"]
    /\ fsub' = [fsub EXCEPT ![t] = NoSubmission]
    /\ fnext' = [fnext EXCEPT ![t] = 0]
    /\ fbuf' = [fbuf EXCEPT ![t] = <<>>]
    /\ UNCHANGED <<procVars, pageVars, ledger_exists, submitted, rejected, backups,
                   roundVars>>

(***************************************************************************)
(* The whole engine: request threads saving feedback while a round runs.   *)
(* The round draws its oracle answers from a few samples here; SpecRound   *)
(* draws all of them.                                                      *)
(***************************************************************************)
SampleVotes ==
    {[j \in JurorNames |-> IF j \in HighTrust THEN "no_objection" ELSE "failed"]}

SampleJudges == {"refuted"}

SampleReplies ==
    {[ok |-> TRUE, lines |-> <<VerdictLine("CLEAN", FALSE), MessageLine>>]}

Next ==
    \/ CourtManager_init
    \/ restart
    \/ no_facts
    \/ build_court
    \/ court_hear(SampleVotes, SampleJudges)
    \/ verify_text
    \/ convert(SampleReplies)
    \/ fallback
    \/ round_return
    \/ \E t \in Threads :
          \/ submit_feedback(t)
          \/ f_open(t)
          \/ f_write(t)
          \/ f_close(t)

Spec == Init /\ [][Next]_vars

(***************************************************************************)
(* Feedback written sequentially: a submission starts only when no other   *)
(* is in progress.                                                         *)
(***************************************************************************)
submit_feedback_alone(t) ==
    /\ \A u \in Threads : fpc[u] = "idle"
    /\ submit_feedback(t)

NextSeq ==
    \/ CourtManager_init
    \/ restart
    \/ \E t \in Threads :
          \/ submit_feedback_alone(t)
          \/ f_open(t)
          \/ f_write(t)
          \/ f_close(t)

SpecSeq == Init /\ [][NextSeq]_vars

(***************************************************************************)
(* The feedback endpoint alone: requests that pass or fail the validation, *)
(* and writes that raise.                                                  *)
(***************************************************************************)
NextApi ==
    \/ CourtManager_init
    \/ \E t \in Threads :
          \/ submit_feedback(t)
          \/ reject_feedback(t)
          \/ backup_fails(t)
          \/ f_open(t)
          \/ f_write(t)
          \/ f_close(t)
          \/ save_fails(t)

SpecApi == Init /\ [][NextApi]_vars


(***************************************************************************)
(* Properties of the ledger.                                               *)
(***************************************************************************)
\* the last piece of its record (the line of _init_directories is one)
IsLast(piece) ==
    piece.id = 0 \/ piece.k = Len(RecordWrites(submitted[piece.id]))

\* every piece follows the piece before it of the same record, and a record
\* starts only where the record before it has ended
Contiguous(content) ==
    \A p \in 2..Len(content) :
        IF content[p].k > 1
        THEN content[p - 1].id = content[p].id /\ content[p - 1].k = content[p].k - 1
        ELSE IsLast(content[p - 1])

\* only complete records
WholeRecords(content) ==
    Contiguous(content) /\ (content # <<>> => IsLast(content[Len(content)]))

\* a reader recovers the records from the markers: a record starts at a
\* separator that is followed by the header line
RecordStarts(content) ==
    {p \in 1..(Len(content) - 1) :
        content[p].text = "separator" /\ content[p + 1].text = "header"}

ReadBack(content) ==
    LET starts == RecordStarts(content)
        n      == Cardinality(starts)
        nth(i) == CHOOSE p \in starts : Cardinality({q \in starts : q < p}) = i - 1
        end(i) == IF i = n THEN Len(content) ELSE nth(i + 1) - 1
    IN  [i \in 1..n |-> SubSeq(content, nth(i), end(i))]

AllIdle == \A t \in Threads : fpc[t] = "idle"

\* C7: whatever the interleaving of concurrent submissions, the writes of
\* each record are contiguous in the ledger.
C7_NoInterleavedRecords == Contiguous(ledger)

\* C8: the snapshot build_court takes while an append is in progress holds
\* only complete records.
C8_SnapshotNotTorn == rpc = "built" => WholeRecords(feedback_content)

C10_AppendOnly == [][IsPrefix(ledger, ledger')]_vars

C10_Witness ==
    /\ rpc = "done"
    /\ ledger[1] = InitPiece
    /\ Len(feedback_content) > 1
    /\ Len(ledger) > Len(feedback_content)
    /\ \E t \in Threads : fpc[t] = "writing"


(***************************************************************************)
(* The dispatch of the juror calls inside court.hear (specification        *)
(* sections 4.2 and 5): one call per entry of juries, at most              *)
(* concurrency_limit of them in flight; a call ends with a vote, with an   *)
(* error or at its timeout.  The votes are returned in completion order.   *)
(***************************************************************************)
Tasks == DOMAIN juries

InFlight(js) == {i \in Tasks : js[i] = "running"}

Ended(js) == {i \in Tasks : js[i] \in {"voted", "failed", "timed_out"}}

\* the decisions drawn for a juror call
DispatchDecisions == {"no_objection", "refutes"}

\* a dispatcher whose juror calls have no timeout
HasTimeout_none == FALSE

\* each juror call has a bounded timeout
HasTimeout == TRUE

\* the failure of a call taking every call in flight down with it
Cancelled_siblings(js, i) == InFlight(js)

\* the calls ended by the error or the timeout of call i
Cancelled(js, i) == {i}

\* the number of objections among the votes, counted only up to the first
\* vote that is none
RECURSIVE CountObjections_run(_)
CountObjections_run(vs) ==
    IF vs = <<>> \/ Head(vs).decision = "no_objection" THEN 0
    ELSE 1 + CountObjections_run(Tail(vs))

\* objections = count(v for v in votes if v.decision != no_objection)
RECURSIVE CountObjections(_)
CountObjections(vs) ==
    IF vs = <<>> THEN 0
    ELSE (IF Head(vs).decision # "no_objection" THEN 1 ELSE 0)
             + CountObjections(Tail(vs))

\* aggregate(votes, ruleSet, quorum) on the returned list of votes
AggregateVotes(vs) ==
    IF Len(vs) < quorum THEN "suspicious"
    ELSE FirstMatch(verdict_rules, 1, CountObjections(vs), Len(vs))

\* the votes of the report by juror name; a juror without a vote has failed
VotesByName(vs) ==
    [j \in JurorNames |->
        IF \E n \in 1..Len(vs) : vs[n].jury_name = j
        THEN vs[CHOOSE n \in 1..Len(vs) : vs[n].jury_name = j].decision
        ELSE "failed"]

\* court.hear is entered: every juror call waits for a slot
hear_begin ==
    /\ rpc = "built"
    /\ rpc' = "hearing"
    /\ jstate' = [i \in Tasks |-> "waiting"]
    /\ votes' = <<>>
    /\ UNCHANGED <<procVars, pageVars, ledgerVars, feedVars, feedback_content, consulted,
                   jury_votes, prelim, judge, report, court_error,
                   court_result, result_text, user_friendly_result>>

\* a semaphore no call can acquire
SlotFree_none(js) == FALSE

\* a slot is free while fewer than concurrency_limit calls are in flight
SlotFree(js) == Cardinality(InFlight(js)) < concurrency_limit

\* a waiting call takes a free slot and goes to its oracle
juror_start(i) ==
    /\ rpc = "hearing"
    /\ jstate[i] = "waiting"
    /\ SlotFree(jstate)
    /\ jstate' = [jstate EXCEPT ![i] = "running"]
    /\ consulted' = IF juries[i] = FeedbackJuror
                    THEN SimpleTextStorage(feedback_content, ledger)
                    ELSE consulted
    /\ UNCHANGED <<procVars, pageVars, ledgerVars, feedVars, rpc, feedback_content,
                   votes, jury_votes, prelim, judge, report, court_error,
                   court_result, result_text, user_friendly_result>>

\* the oracle answers: the vote is recorded and the slot is free again
juror_vote(i) ==
    /\ rpc = "hearing"
    /\ jstate[i] = "running"
    /\ \E d \in DispatchDecisions :
          votes' = Append(votes, [jury_name |-> juries[i], decision |-> d])
    /\ jstate' = [jstate EXCEPT ![i] = "voted"]
    /\ UNCHANGED <<procVars, pageVars, ledgerVars, feedVars, rpc, feedback_content,
                   consulted,
                   jury_votes, prelim, judge, report, court_error,
                   court_result, result_text, user_friendly_result>>

\* the oracle call raises: the outcome is failed, no vote is recorded
juror_error(i) ==
    /\ rpc = "hearing"
    /\ jstate[i] = "running"
    /\ jstate' = [k \in Tasks |->
                     IF k \in Cancelled(jstate, i) THEN "failed" ELSE jstate[k]]
    /\ UNCHANGED <<procVars, pageVars, ledgerVars, feedVars, rpc, feedback_content,
                   consulted,
                   votes, jury_votes, prelim, judge, report, court_error,
                   court_result, result_text, user_friendly_result>>

\* the timeout of the call expires before the oracle has answered
juror_timeout(i) ==
    /\ rpc = "hearing"
    /\ jstate[i] = "running"
    /\ HasTimeout
    /\ jstate' = [k \in Tasks |->
                     IF k = i THEN "timed_out"
                     ELSE IF k \in Cancelled(jstate, i) THEN "failed"
                     ELSE jstate[k]]
    /\ UNCHANGED <<procVars, pageVars, ledgerVars, feedVars, rpc, feedback_content,
                   consulted,
                   votes, jury_votes, prelim, judge, report, court_error,
                   court_result, result_text, user_friendly_result>>

\* every call has ended: the returned votes are aggregated and the judge is
\* called, who suggests a label or fails
court_judge(Judges) ==
    /\ rpc = "hearing"
    /\ Ended(jstate) = Tasks
    /\ jury_votes' = VotesByName(votes)
    /\ prelim' = AggregateVotes(votes)
    /\ \/ /\ court_error' = TRUE
          /\ rpc' = "raised"
          /\ UNCHANGED <<judge, report>>
       \/ \E j \in Judges :
             /\ judge' = j
             /\ report' = [claims |->
                              <<[verdict |-> CourtVerdict(VotesByName(votes), j),
                                 jury_votes |-> VotesByName(votes)]>>]
             /\ rpc' = "heard"
             /\ UNCHANGED court_error
    /\ UNCHANGED <<procVars, pageVars, ledgerVars, feedVars, dispVars,
                   feedback_content,
                   consulted,
                   court_result, result_text, user_friendly_result>>

NextDispatch ==
    \/ CourtManager_init
    \/ build_court
    \/ hear_begin
    \/ \E i \in Tasks :
          \/ juror_start(i)
          \/ juror_vote(i)
          \/ juror_error(i)
          \/ juror_timeout(i)
    \/ court_judge(SampleJudges)
    \/ verify_text
    \/ convert(SampleReplies)
    \/ fallback
    \/ round_return

SpecDispatch == Init /\ [][NextDispatch]_vars

\* a call that can start does start, the timeout of a call in flight
\* expires unless the call ends before, and the court goes on once every
\* call has ended; an oracle is not bound to answer
FairDispatch ==
    /\ \A i \in Tasks : WF_vars(juror_start(i)) /\ WF_vars(juror_timeout(i))
    /\ WF_vars(court_judge(SampleJudges))

SpecDispatchFair == Init /\ [][NextDispatch]_vars /\ FairDispatch

(***************************************************************************)
(* Properties of the dispatch.                                             *)
(***************************************************************************)
VotesOf(j, vs) == {n \in 1..Len(vs) : vs[n].jury_name = j}

Dispatched == rpc \in {"heard", "raised"} /\ Ended(jstate) = Tasks

\* C13: the dispatcher returns at most as many votes as the panel has
\* jurors, and at most one vote of each juror, whatever the order in which
\* the calls end, fail and time out.
C13_AtMostOneVoteEach ==
    /\ Len(votes) <= Len(juries)
    /\ \A j \in JurorNames : Cardinality(VotesOf(j, votes)) <= 1

C13_Witness ==
    /\ Dispatched
    /\ Len(votes) = 3
    /\ \E i, k \in Tasks : jstate[i] = "failed" /\ jstate[k] = "timed_out"
    /\ votes[1].jury_name = "User_Feedback_Jury"

\* C14: a round that has started its dispatch reaches the aggregation; a
\* call that ended at its timeout counts as failed and has no vote in the
\* returned list.
C14_RoundCompletes ==
    /\ (rpc = "hearing") ~> Dispatched
    /\ [](Dispatched =>
             \A i \in Tasks :
                 jstate[i] = "timed_out" =>
                     /\ VotesOf(juries[i], votes) = {}
                     /\ jury_votes[juries[i]] = "failed")

C14_Witness ==
    /\ rpc = "heard"
    /\ \E i \in Tasks : jstate[i] = "timed_out"
    /\ Len(votes) >= quorum
    /\ prelim = "supported"

C16_FailureIsLocal ==
    [][ /\ \A i \in Tasks :
              (jstate[i] = "running" /\ jstate'[i] \in {"failed", "timed_out"})
                  => /\ \A k \in Tasks \ {i} : jstate'[k] = jstate[k]
                     /\ votes' = votes
        /\ \A i \in Tasks :
              jstate'[i] \in {"failed", "timed_out"}
                  => VotesOf(juries[i], votes') = {}
        /\ \A i \in Tasks :
              jstate'[i] = "voted" => VotesOf(juries[i], votes') # {} ]_vars

C16_Witness ==
    /\ Dispatched
    /\ Len(votes) = Len(juries) - 1
    /\ \E i \in Tasks : jstate[i] = "timed_out"

\* the votes in another order
Permuted(vs, f) == [n \in 1..Len(vs) |-> vs[f[n]]]

\* C17: for at least quorum returned votes the label of the aggregation is
\* the same for every order of the votes, and is the label the rules give
\* for the number of objections and the number of returned votes.
C17_OrderIndependent ==
    (Dispatched /\ Len(votes) >= quorum) =>
        /\ \A f \in Permutations(1..Len(votes)) :
               AggregateVotes(Permuted(votes, f)) = prelim
        /\ prelim = FirstMatch(verdict_rules, 1,
                        Cardinality({n \in 1..Len(votes) :
                                        votes[n].decision # "no_objection"}),
                        Len(votes))

C17_Witness ==
    /\ Dispatched
    /\ Len(votes) = quorum
    /\ votes[1].decision = "no_objection"
    /\ votes[2].decision = "refutes"
    /\ votes[3].decision = "no_objection"
    /\ prelim = "suspicious"

(***************************************************************************)
(* Properties of the feedback endpoint.                                    *)
(***************************************************************************)
\* what the validation is to let through
Acceptable(p) ==
    /\ p.feedback_type \in {"fact", "suspicious_fact", "fake_fact"}
    /\ p.content_len >= MinLength
    /\ p.prove_len >= MinLength

\* the pieces of record i in the content are all its writes, in order
Complete(i, content) ==
    SelectSeq(content, LAMBDA piece : piece.id = i) = RecordWrites(submitted[i])

\* no thread is in save_user_feedback for submission i
Left(i) == \A t \in Threads : fsub[t].id # i

\* C11: a request with a feedback_type outside the three types, or with
\* feedback_content or feedback_prove shorter than 10 characters, never
\* reaches save_user_feedback, and the step that rejects a request changes
\* neither the ledger nor the backup files.
C11_RejectedBeforeWrite ==
    [][ /\ \A i \in 1..Len(submitted') : Acceptable(submitted'[i])
        /\ rejected' # rejected =>
              /\ ledger' = ledger
              /\ backups' = backups
              /\ submitted' = submitted ]_vars

C11_Witness ==
    /\ Len(ledger) > 1
    /\ backups # {}
    /\ \E i \in 1..Len(rejected) :
          /\ rejected[i].request.feedback_type = "fact"
          /\ rejected[i].request.content_len = MinLength - 1
          /\ rejected[i].message = "Please provide the fact content"

\* C12: a submission answered with success has its complete record in the
\* ledger, and a submission whose call of save_user_feedback is over without
\* the complete record in the ledger is answered with failure.
C12_NoSilentDrop ==
    \A i \in 1..Len(response) :
        /\ response[i] = "success" => Complete(i, ledger)
        /\ (Left(i) /\ ~Complete(i, ledger)) => response[i] = "failure"

C12_Witness ==
    \E i, j \in 1..Len(response) :
        /\ response[i] = "success"
        /\ submitted[i].content_size > BufferSize
        /\ response[j] = "failure"
        /\ \E n \in 1..Len(ledger) : ledger[n].id = j
        /\ ~Complete(j, ledger)

(***************************************************************************)
(* Properties of the feedback snapshot of a round.                         *)
(***************************************************************************)
\* C21: the feedback text of a round is read from the ledger at build time
\* only: from the build to the return of the round the snapshot does not
\* change, whatever is appended to the ledger meanwhile, and the text a
\* juror of the round is given is that snapshot.
C21_SnapshotReadOnce ==
    [][/\ rpc # "idle" /\ rpc' # "idle" => feedback_content' = feedback_content
       /\ consulted' # consulted /\ rpc' # "idle" =>
              consulted' = feedback_content]_vars

C21_Witness ==
    /\ rpc = "heard"
    /\ consulted # <<>>
    /\ consulted = feedback_content
    /\ Len(ledger) > Len(feedback_content)

\* C22: a round whose panel is built after a submission was answered with
\* success has every write of that record in its snapshot, in order.
C22_AnsweredIsInSnapshot ==
    [][rpc = "idle" /\ rpc' = "built" =>
          \A i \in 1..Len(response) :
              response[i] = "success" => Complete(i, feedback_content')]_vars

\* a record that stays in the buffer until the file is closed: it is in the
\* snapshot only when the build came after the answer
C22_Witness ==
    /\ rpc = "built"
    /\ \E i \in 1..Len(response) :
          /\ response[i] = "success"
          /\ submitted[i].content_size = 0
          /\ submitted[i].prove_size = 0
          /\ Complete(i, feedback_content)
    /\ \E t \in Threads : fpc[t] = "writing"

(***************************************************************************)
(* Order of the steps of a round.                                          *)
(***************************************************************************)
\* the step in which the conversion (the override step) returns its dict
ConversionStep ==
    /\ rpc # "done"
    /\ rpc' = "done"
    /\ user_friendly_result'.details \notin
           {NoFactsResult.details, FallbackResult.details,
            ServiceErrorResult.details}

\* C23: the conversion is applied only to a round whose court has returned:
\* verify_text has produced its dict from the report, and when the report
\* holds a claim result the votes are aggregated and the judge has
\* suggested the label the verdict of the report was computed from.
C23_OverrideAfterCourt ==
    [][ConversionStep =>
          /\ rpc = "judged"
          /\ court_result # NoResult
          /\ court_result = verify_text_result(report)
          /\ report.claims # <<>> =>
                /\ prelim = Aggregate(jury_votes)
                /\ judge \in JudgeLabels
                /\ report.claims[1].verdict = CourtVerdict(jury_votes, judge)]_vars

C23_Witness ==
    /\ rpc = "done"
    /\ report.claims # <<>>
    /\ judge \in JudgeLabels
    /\ prelim = Aggregate(jury_votes)
    /\ result_text.ok
    /\ user_friendly_result.confidence # court_result.confidence

(***************************************************************************)
(* The construction of the panel, for every choice of its parameters.      *)
(***************************************************************************)
InitPanel ==
    /\ panel \in PanelConfigs
    /\ StartInit

NextPanel ==
    \/ CourtManager_init
    \/ build_court
    \/ court_hear(SampleVotes, SampleJudges)
    \/ verify_text
    \/ convert(SampleReplies)
    \/ fallback
    \/ round_return

SpecPanel == InitPanel /\ [][NextPanel]_vars

\* the panel is built and the round goes on with the court
InSession == rpc \in {"built", "hearing", "heard", "judged"}

\* C24: a panel is built only with 1 <= quorum <= number of jurors and
\* concurrency_limit >= 1; with a quorum above the number of jurors the
\* build fails before any juror is called and the round ends without a
\* report; with the parameters build_court passes the build succeeds.
C24_PanelValidated ==
    [][/\ InSession' =>
             /\ 1 <= panel'.quorum
             /\ panel'.quorum <= panel'.size
             /\ panel'.concurrency_limit >= 1
       /\ panel'.quorum > panel'.size =>
             /\ ~InSession'
             /\ rpc' \in {"raised", "done"} => court_error'
             /\ report' = NoReport
             /\ jury_votes' = NoVotes
             /\ consulted' = <<>>
       /\ panel = ConfiguredPanel /\ rpc = "idle" /\ rpc' # "idle" =>
             rpc' = "built"]_vars

C24_Witness ==
    /\ panel.quorum > panel.size
    /\ panel.size = Len(juries)
    /\ rpc = "done"
    /\ court_error
    /\ user_friendly_result = FallbackResult

(***************************************************************************)
(* The text of the ledger, line by line, and a reader that splits it at    *)
(* the lines a record starts with.  Submissions are written one after the  *)
(* other here; the claim of a submission may hold these lines itself.      *)
(***************************************************************************)
SeparatorLine == "================"
HeaderLine    == "[USER FEEDBACK]"

\* the lines of a feedback_content: plain text, or text that holds the
\* three lines a record starts with
ContentLines(marker) ==
    IF marker THEN <<"text", SeparatorLine, HeaderLine, SeparatorLine, "text">>
    ELSE <<"text">>

\* the lines one f.write call puts into the file (blank lines left out);
\* the fields are written as they were received
PieceLines(piece) ==
    CASE piece.text = "initialized" -> <<"--- Trusted User Feedback Database Initialized ---">>
      [] piece.text = "separator"   -> <<SeparatorLine>>
      [] piece.text = "header"      -> <<HeaderLine>>
      [] piece.text = "url"         -> <<"URL:">>
      [] piece.text = "claim"       ->
             <<"CLAIM:">> \o ContentLines(submitted[piece.id].content_marker)
      [] piece.text = "evidence"    -> <<"EVIDENCE/PROOF:", "text">>
      [] piece.text = "context"     -> <<"CONTEXT:", "text">>
      [] OTHER                      -> <<"TYPE:">>

RECURSIVE FileLines(_)
FileLines(content) ==
    IF content = <<>> THEN <<>>
    ELSE PieceLines(Head(content)) \o FileLines(Tail(content))

\* the lines at which a reader sees a record start
MarkerStarts(lines) ==
    {p \in 1..(Len(lines) - 2) :
        /\ lines[p] = SeparatorLine
        /\ lines[p + 1] = HeaderLine
        /\ lines[p + 2] = SeparatorLine}

SplitOnMarkers(lines) ==
    LET starts == MarkerStarts(lines)
        n      == Cardinality(starts)
        nth(i) == CHOOSE p \in starts : Cardinality({q \in starts : q < p}) = i - 1
        end(i) == IF i = n THEN Len(lines) ELSE nth(i + 1) - 1
    IN  [i \in 1..n |-> SubSeq(lines, nth(i), end(i))]

\* the requests drawn: those of SubmissionSamples, and a short claim that
\* holds the marker lines
MarkerSamples(n) ==
    SubmissionSamples(n) \cup
        {p \in Submissions(n) :
            /\ p.content_marker
            /\ p.feedback_type = "fact"
            /\ p.content_size = 0 /\ p.prove_size = 0
            /\ ~p.has_background}

submit_marked_alone(t) ==
    /\ \A u \in Threads : fpc[u] = "idle"
    /\ accept_feedback(t, MarkerSamples(Len(submitted) + 1),
                       FreshStamps(Len(submitted) + 1))

NextMarker ==
    \/ CourtManager_init
    \/ restart
    \/ \E t \in Threads :
          \/ submit_marked_alone(t)
          \/ f_open(t)
          \/ f_write(t)
          \/ f_close(t)

SpecMarker == Init /\ [][NextMarker]_vars

\* C26: splitting the text of the ledger at the marker lines gives exactly
\* the records that were appended, each with its own lines, whatever the
\* fields of the records hold.
C26_MarkersDelimitRecords ==
    AllIdle =>
        SplitOnMarkers(FileLines(ReadText(ledger))) =
            [i \in 1..Len(submitted) |-> FileLines(RecordWrites(submitted[i]))]

(***************************************************************************)
(* The dict verify_text returns.                                           *)
(***************************************************************************)
\* C27: verify_text labels supported as CLEAN, suspicious as SUSPICIOUS,
\* refuted as FAKE and every other verdict as SUSPICIOUS; CLEAN is returned
\* only for supported, and N/A only for a report without claims.
C27_VerdictMapping ==
    rpc \in {"judged", "done"} /\ court_result # NoResult =>
        LET label == court_result.confidence
        IN  IF report.claims = <<>> THEN label = "N/A"
            ELSE LET verdict == report.claims[1].verdict
                 IN  /\ verdict = "supported"  => label = "CLEAN"
                     /\ verdict = "suspicious" => label = "SUSPICIOUS"
                     /\ verdict = "refuted"    => label = "FAKE"
                     /\ verdict \notin {"supported", "suspicious", "refuted"}
                            => label = "SUSPICIOUS"
                     /\ label = "CLEAN" => verdict = "supported"
                     /\ label # "N/A"

C27_Witness ==
    /\ rpc = "judged"
    /\ report.claims # <<>>
    /\ report.claims[1].verdict = "inconclusive"
    /\ court_result.confidence = "SUSPICIOUS"

(***************************************************************************)
(* One /api/summary request.                                               *)
(***************************************************************************)
\* get_summary up to the call of analyze_content, and analyze_content up to
\* the submission of the two tasks
get_summary(Samples) ==
    /\ spc = "idle"
    /\ \E pg \in Samples :
          /\ page' = pg
          /\ IF ~pg.content_ok
             THEN /\ summary_response' = ShortContentResponse
                  /\ spc' = "answered"
                  /\ UNCHANGED analysis
             ELSE IF ~pg.client
             THEN /\ analysis' = NotConfiguredReturn
                  /\ spc' = "returned"
                  /\ UNCHANGED summary_response
             ELSE /\ spc' = "parallel"
                  /\ UNCHANGED <<analysis, summary_response>>
    /\ UNCHANGED <<procVars, ledgerVars, feedVars, roundVars, future_summary,
                   future_facts>>

\* the summary task ends
generate_summary_gpt ==
    /\ spc = "parallel"
    /\ future_summary = <<>>
    /\ future_summary' = <<SummaryText(page)>>
    /\ UNCHANGED <<procVars, ledgerVars, feedVars, roundVars, spc, page,
                   future_facts, analysis, summary_response>>

\* the extraction task ends
extract_facts_claude ==
    /\ spc = "parallel"
    /\ future_facts = <<>>
    /\ future_facts' = <<ExtractReturn(page)>>
    /\ UNCHANGED <<procVars, ledgerVars, feedVars, roundVars, spc, page,
                   future_summary, analysis, summary_response>>

\* both results are taken and analyze_content returns
analyze_content ==
    /\ spc = "parallel"
    /\ future_summary # <<>>
    /\ future_facts # <<>>
    /\ analysis' = AnalyzeReturn(future_summary[1], future_facts[1])
    /\ spc' = "returned"
    /\ UNCHANGED <<procVars, ledgerVars, feedVars, roundVars, page,
                   future_summary, future_facts, summary_response>>

\* get_summary unpacks the value and answers
get_summary_return ==
    /\ spc = "returned"
    /\ summary_response' = SummaryResponse(analysis)
    /\ spc' = "answered"
    /\ UNCHANGED <<procVars, ledgerVars, feedVars, roundVars, page,
                   future_summary, future_facts, analysis>>

\* the next request starts from scratch
summary_done ==
    /\ spc = "answered"
    /\ spc' = "idle"
    /\ page' = NoPage
    /\ future_summary' = <<>>
    /\ future_facts' = <<>>
    /\ analysis' = <<>>
    /\ summary_response' = NoResponse
    /\ UNCHANGED <<procVars, ledgerVars, feedVars, roundVars>>

NextSummary ==
    \/ get_summary(Pages)
    \/ generate_summary_gpt
    \/ extract_facts_claude
    \/ analyze_content
    \/ get_summary_return
    \/ summary_done

SpecSummary == Init /\ [][NextSummary]_vars

\* the extraction oracle answered with an error or with an empty result
ExtractionFailed == page.extraction \in {"error", "empty"}

\* C28: when the extraction fails and the summary was generated, the
\* answer of /api/summary holds the generated summary and confidence N/A;
\* every value extract_facts_claude and analyze_content return unpacks
\* into the pair its caller expects.
C28_SummarySurvivesExtraction ==
    /\ future_facts # <<>> => Len(future_facts[1]) = 2
    /\ analysis # <<>> => Len(analysis) = 2
    /\ spc = "answered" /\ page.content_ok /\ page.client /\ page.summary_ok
          /\ ExtractionFailed =>
              /\ summary_response.summary = SummaryText(page)
              /\ summary_response.confidence = "N/A"

(***************************************************************************)
(* Properties of the backup files.                                         *)
(***************************************************************************)
\* C29: a submission answered with failure has left nothing behind:
\* neither a backup file nor any text of its record in the ledger.
C29_FailureLeavesNoTrace ==
    \A i \in 1..Len(response) :
        response[i] = "failure" =>
            /\ \A b \in backups : b.id # i
            /\ \A k \in 1..Len(ledger) : ledger[k].id # i

\* concurrent submissions whose file names come from the clock: two threads
\* may be given the same value
submit_stamped(t) ==
    accept_feedback(t, SubmissionSamples(Len(submitted) + 1),
                    ClockStamps(Len(submitted) + 1))

NextBackup ==
    \/ CourtManager_init
    \/ \E t \in Threads :
          \/ submit_stamped(t)
          \/ f_open(t)
          \/ f_write(t)
          \/ f_close(t)

SpecBackup == Init /\ [][NextBackup]_vars

\* C30: there are as many backup files as accepted submissions, and each
\* accepted submission still has its file.
C30_OwnBackupFile ==
    /\ Cardinality(backups) = Len(submitted)
    /\ \A i \in 1..Len(submitted) : \E b \in backups : b.id = i

====
